---- MODULE Spec2Model ----
(***************************************************************************)
(* Verification model of the cross-process coordination code of openuds:   *)
(*   uds/core/util/unique_id_generator.py    (sequence allocator)          *)
(*   uds/core/util/unique_name_generator.py  (name allocator)              *)
(*   uds/core/jobs/delayed_task_runner.py    (delayed task store, runner)  *)
(* The relational store is modelled as committed tables plus the row locks *)
(* of open transactions.  A statement that takes row locks is enabled only *)
(* when no other transaction holds one of them (it waits otherwise), and a *)
(* waiting statement may fail with a lock wait timeout.  A transaction     *)
(* whose last statement is its only write commits in the step of that      *)
(* write.                                                                  *)
(*                                                                         *)
(* The specifications share the variables:                                 *)
(*   Spec      the sequence allocator under concurrent callers             *)
(*   SpecRace, SpecRaceFair, SpecStall   get() calls racing on one range   *)
(*   SpecFull, SpecSeq   the allocator, one call after the other           *)
(*   SpecRange get() on any range, statement by statement                 *)
(*   SpecFrame the calls of one generator among those of two others        *)
(*   SpecName, SpecDigits  the name allocator, one call after the other    *)
(*   SpecTask, SpecSkew  the delayed task store, its producer, its runners *)
(*   SpecRun, SpecBad, SpecBadFair  the runner instances, loops, threads   *)
(***************************************************************************)
EXTENDS Integers, Sequences, FiniteSets, TLC

VARIABLES
    table,      \* UniqueId rows: [basename, seq, owner, assigned, stamp]
    locked,     \* locked[p]: keys <<basename, seq>> of the rows p's open transaction locks
    now,        \* the store's clock (getSqlDatetime / getSqlDatetimeAsUnix)
    baseName,   \* baseName[p]: UniqueIDGenerator._baseName of p's generator
    pc,         \* pc[p]: where p stands inside the allocator operation it runs
    loc,        \* loc[p]: locals of that operation: [rs, re, seq, stamp]
    ret,        \* ret[p]: what p's get() returned, until p's next call (NoRet otherwise)
    holds,      \* holds[p]: the seqs get() returned to p and p has not freed or released
    last,       \* the name allocator call that returned last: [op, base, len, name, err]
    scen,       \* how the calls so far go: [phase, base, len, n, name]; phase "gets":
                \* n get(base, len) calls on an empty namespace and nothing else;
                \* "freed": then free(name); "reget": then get(base, len); "off": else
    named,      \* named[p]: [base, name] of the names p was given and has not given back
    ops,        \* the number of name allocator calls made
    tasks,      \* DelayedTask rows: [id, instance, insert_date, execution_delay,
                \*                    execution_time, tag]
    nextId,     \* the id the next inserted row gets (the table's auto-increment key)
    prod,       \* the producer's call that returned last:
                \* [op, tag, res, quiet, fails, attempts, written]; quiet: every
                \* runner was asleep when the call was made; for insert(), fails:
                \* how many writes the store was going to fail, attempts: the
                \* writes tried, written: the rows written
    rpc,        \* rpc[r]: where runner r stands: "sleep", "poll", "claim_delete"
    rloc,       \* rloc[r]: locals of executeOneDelayedTask: [now, task]; task is the
                \* set of the row read (empty before the read)
    executed,   \* executed[id]: how many DelayedTaskThreads were started for row id
    fresh,      \* ids of the stored rows during whose life every runner has been asleep
    cancelled,  \* the rows that were fresh when remove() was called with their tag
    single,     \* DelayedTaskRunner._runner: 0 for None, or the number of an instance
    made,       \* how many DelayedTaskRunner instances were constructed
    keep,       \* keep[i]: _keepRunning of instance i
    boot,       \* boot[r]: where thread r stands in runner(): "call", "saw_none",
                \* "assigned", "got"; "sleeping": in time.sleep of run(), after
                \* _keepRunning was read as true
    mine,       \* mine[r]: the instance runner() returned to thread r (0: none yet)
    work,       \* work[id]: the DelayedTaskThread started for row id: [st, inst];
                \* st: "none", "running", "done", "raised"
    call        \* the allocator call that returned last, when the calls are made one
                \* after the other: [op, base, rs, re, seq, ok, after]; seq: the
                \* value get() returned, or the argument of free() and transfer();
                \* ok: a row was written; after: the op of the call before it.
                \* In SpecFrame: the call the generator looked at made last,
                \* [n, op, seq, to, stamp, flt]; n flips with every call it
                \* makes, flt is the number of rows the update of free() hit

allocVars == <<table, locked, now, baseName, pc, loc, ret, holds>>

nameVars == <<last, scen, named, ops>>

taskVars == <<tasks, nextId, prod, rpc, rloc, executed, fresh, cancelled>>

seqVars == <<call>>

runVars == <<single, made, keep, boot, mine, work>>

nonAlloc == <<nameVars, taskVars, seqVars, runVars>>

vars == <<allocVars, nameVars, taskVars, seqVars, runVars>>

(* ----------------------------- bounds ---------------------------------- *)
RangeEnd == 1       \* Spec: get() is called on the range [0, RangeEnd]
MaxNow == 1         \* Spec: the clock runs from 0 to MaxNow
RaceEnd == 3        \* SpecRace: the racing get() calls are on the range [0, RaceEnd]
MaxOps == 4         \* SpecName: at most MaxOps calls are made
MaxClock == 2       \* SpecTask: the clock runs from 0 to MaxClock
MaxTasks == 1       \* SpecTask: at most MaxTasks rows are ever inserted
MaxFails == 3       \* SpecTask: the store fails at most MaxFails writes in a row
FullEnd == 2        \* SpecFull: the filled range lies in [0, FullEnd]
SeqEnd == 2         \* SpecSeq: the calls are on ranges within [0, SeqEnd]
FrameEnd == 0       \* SpecFrame: get() is called on the range [0, FrameEnd]
RangeTop == 1       \* SpecRange: get() is called with rangeStart, rangeEnd in 0..RangeTop
RunTasks == 2       \* SpecRun: RunTasks rows are in the task table at the start

(* ------------------------ program constants ---------------------------- *)
\* MAX_SEQ is 1000000000000000 in the source; TLC's integers end at 2^31 - 1, and
\* MAX_SEQ only stands for "above every seq", which this value is as well
MAX_SEQ == 2147483647
\* get(): return -1
Exhausted == -1
\* UniqueNameGenerator.get: 10 ** length - 1
NameRadix == 10
\* insert(): retries = 3
InsertRetries == 3
\* executeOneDelayedTask: timedelta(seconds=30)
SkewTolerance == 30

Procs == {"p1", "p2", "p3"}     \* the processes; each has a generator of its own
Callers == {"p1", "p2"}         \* those that call the allocator in Spec and SpecName
NoOwner == ""
NoRet == Exhausted - 1
\* UniqueIDGenerator.__init__: 'uds' if baseName is None.  A basename is a string,
\* written as the tuple of its characters
DefaultBase == <<"u", "d", "s">>
Ws == <<"w", "s">>

\* UniqueIDGenerator.__init__: the identity is owner + typeName; every process has
\* a generator made for an owner of its own
Owner(p) == CASE p = "p1" -> "p1uid" [] p = "p2" -> "p2uid" [] OTHER -> "p3uid"

\* UniqueNameGenerator.__init__: super().__init__('name', owner)
NameOwner(p) == CASE p = "p1" -> "p1name" [] p = "p2" -> "p2name" [] OTHER -> "p3name"

Runners == {"r1", "r2"}         \* run() loops, in one process or in several
Tags == {"", "t1"}
Delays == {0, 1}
\* a task instance: its class and its attributes
Payloads == {[cls |-> "A", state |-> 1]}

IdleLoc == [rs |-> 0, re |-> 0, seq |-> 0, stamp |-> 0]

IdleRloc == [now |-> 0, task |-> {}]

NoCall == [op |-> "none", tag |-> "", res |-> FALSE, quiet |-> FALSE,
           fails |-> 0, attempts |-> 0, written |-> 0]

NoSeqCall == [op |-> "none", base |-> <<>>, rs |-> 0, re |-> 0, seq |-> 0,
              ok |-> FALSE, after |-> "none"]

NoWork == [st |-> "none", inst |-> <<>>]

NoLast == [op |-> "none", base |-> <<>>, len |-> 0, name |-> <<>>, err |-> FALSE]

Off == [phase |-> "off", base |-> <<>>, len |-> 0, n |-> 0, name |-> <<>>]

\* no allocator call is in progress
AllocIdle ==
    /\ locked = [p \in Procs |-> {}]
    /\ baseName = [p \in Procs |-> DefaultBase]
    /\ pc = [p \in Procs |-> "idle"]
    /\ loc = [p \in Procs |-> IdleLoc]
    /\ ret = [p \in Procs |-> NoRet]
    /\ holds = [p \in Procs |-> {}]
    /\ call = NoSeqCall

NameIdle ==
    /\ last = NoLast
    /\ scen = Off
    /\ named = [p \in Procs |-> {}]
    /\ ops = 0

\* the task table is empty, no call is in progress and the runners sleep
TaskIdle ==
    /\ tasks = {}
    /\ nextId = 1
    /\ prod = NoCall
    /\ rpc = [r \in Runners |-> "sleep"]
    /\ rloc = [r \in Runners |-> IdleRloc]
    /\ executed = [i \in 1..MaxTasks |-> 0]
    /\ fresh = {}
    /\ cancelled = {}
    /\ single = 0
    /\ made = 0
    /\ keep = <<>>
    /\ boot = [r \in Runners |-> "call"]
    /\ mine = [r \in Runners |-> 0]
    /\ work = [i \in 1..MaxTasks |-> NoWork]

(* ========================= sequence allocator ========================== *)
KeyOf(r) == <<r.basename, r.seq>>

\* a filter on the basename alone, without seq__gte and seq__lte
C37_WholeBasename(tbl, base, rangeStart, rangeEnd) == {r \in tbl : r.basename = base}

\* __filter: the rows of a basename whose seq is in [rangeStart, rangeEnd]
Filter(tbl, base, rangeStart, rangeEnd) ==
    {r \in tbl : r.basename = base /\ r.seq >= rangeStart /\ r.seq <= rangeEnd}

\* order_by('-seq') in the place of order_by('seq'): the highest free row
C13_HighestFree(flt) ==
    LET free == {r \in flt : ~r.assigned}
    IN  {r \in free : \A o \in free : r.seq >= o.seq}

\* flt.filter(assigned=False).order_by('seq')[0]: the set is empty on IndexError
FirstFree(flt) ==
    LET free == {r \in flt : ~r.assigned}
    IN  {r \in free : \A o \in free : r.seq <= o.seq}

\* the assigned rows in ascending order: [0] is the lowest one
C12_LowestAssigned(flt) ==
    LET used == {r \in flt : r.assigned}
    IN  {r \in used : \A o \in used : r.seq <= o.seq}

\* flt.filter(assigned=True)[0] under the model's default ordering, -seq
LastAssigned(flt) ==
    LET used == {r \in flt : r.assigned}
    IN  {r \in used : \A o \in used : r.seq >= o.seq}

\* a get() that always starts over from rangeStart
C11_FromStart(flt, rangeStart) == rangeStart

\* lines 110-115: seq = last.seq + 1, or rangeStart when no row is assigned
NextSeq(flt, rangeStart) ==
    LET lst == LastAssigned(flt)
    IN  IF lst = {} THEN rangeStart ELSE (CHOOSE r \in lst : TRUE).seq + 1

\* select_for_update: a row another open transaction locks makes the reader wait
LockedByOther(p, keys) == \E q \in Procs \ {p} : locked[q] \cap keys # {}

\* the row get() writes: to the item it found free, or as the row it creates
Assign(base, seq, owner, stamp) ==
    [basename |-> base, seq |-> seq, owner |-> owner, assigned |-> TRUE, stamp |-> stamp]

\* update(assigned=False, stamp=...): the owner is left in the row
C36_UnassignKeepsOwner(r, stamp) == [r EXCEPT !.assigned = FALSE, !.stamp = stamp]

\* update(owner='', assigned=False, stamp=...)
Unassign(r, stamp) == [r EXCEPT !.owner = NoOwner, !.assigned = FALSE, !.stamp = stamp]

(* ------------------------------ get() ---------------------------------- *)
\* lines 84-89: stamp read once, seq = rangeStart, then the retry loop is entered
GetBegin(p, rangeStart, rangeEnd) ==
    /\ pc[p] = "idle"
    /\ pc' = [pc EXCEPT ![p] = "get_free"]
    /\ loc' = [loc EXCEPT ![p] = [rs |-> rangeStart, re |-> rangeEnd,
                                  seq |-> rangeStart, stamp |-> now]]
    /\ ret' = [ret EXCEPT ![p] = NoRet]
    /\ UNCHANGED <<table, locked, now, baseName, holds, nonAlloc>>

\* lines 92-95, 103-104: the locking read of the lowest free row in range
GetSelectFree(p) ==
    /\ pc[p] = "get_free"
    /\ LET item == FirstFree(Filter(table, baseName[p], loc[p].rs, loc[p].re))
           keys == {KeyOf(r) : r \in item}
       IN  /\ ~LockedByOther(p, keys)
           /\ locked' = [locked EXCEPT ![p] = keys]
           /\ pc' = [pc EXCEPT ![p] = IF item = {} THEN "get_last" ELSE "get_save"]
    /\ UNCHANGED <<table, now, baseName, loc, ret, holds, nonAlloc>>

\* lines 96-102: the free row becomes the caller's and the transaction commits
GetSave(p) ==
    /\ pc[p] = "get_save"
    /\ \E key \in locked[p] :
         /\ table' = {IF KeyOf(r) = key
                        THEN Assign(r.basename, r.seq, Owner(p), loc[p].stamp)
                        ELSE r : r \in table}
         /\ ret' = [ret EXCEPT ![p] = key[2]]
         /\ holds' = [holds EXCEPT ![p] = @ \cup {key[2]}]
    /\ locked' = [locked EXCEPT ![p] = {}]
    /\ pc' = [pc EXCEPT ![p] = "idle"]
    /\ loc' = [loc EXCEPT ![p] = IdleLoc]
    /\ UNCHANGED <<now, baseName, nonAlloc>>

\* lines 107-118: the locking read of the highest assigned row; seq is the one
\* after it, or rangeStart; beyond rangeEnd get() returns -1 (and commits nothing)
GetSelectLast(p) ==
    /\ pc[p] = "get_last"
    /\ LET lst  == LastAssigned(Filter(table, baseName[p], loc[p].rs, loc[p].re))
           keys == {KeyOf(r) : r \in lst}
           seq  == NextSeq(Filter(table, baseName[p], loc[p].rs, loc[p].re), loc[p].rs)
       IN  /\ ~LockedByOther(p, keys)
           /\ IF seq > loc[p].re
                THEN /\ ret' = [ret EXCEPT ![p] = Exhausted]
                     /\ pc' = [pc EXCEPT ![p] = "idle"]
                     /\ loc' = [loc EXCEPT ![p] = IdleLoc]
                     /\ locked' = [locked EXCEPT ![p] = {}]
                ELSE /\ pc' = [pc EXCEPT ![p] = "get_create"]
                     /\ loc' = [loc EXCEPT ![p].seq = seq]
                     /\ locked' = [locked EXCEPT ![p] = locked[p] \cup keys]
                     /\ UNCHANGED ret
    /\ UNCHANGED <<table, now, baseName, holds, nonAlloc>>

\* a table with no unique constraint: no insert is ever rejected
C2_NoConstraint(tbl, base, seq) == FALSE

\* u_uid_base_seq: no two rows with the same (basename, seq)
Duplicate(tbl, base, seq) == \E r \in tbl : r.basename = base /\ r.seq = seq

\* a get() that gives up on IntegrityError and returns -1
C25_LoserGivesUp(p) ==
    /\ pc[p] = "get_create"
    /\ IF Duplicate(table, baseName[p], loc[p].seq)
         THEN /\ ret' = [ret EXCEPT ![p] = Exhausted]
              /\ UNCHANGED <<table, holds>>
         ELSE /\ table' = table \cup
                     {Assign(baseName[p], loc[p].seq, Owner(p), loc[p].stamp)}
              /\ ret' = [ret EXCEPT ![p] = loc[p].seq]
              /\ holds' = [holds EXCEPT ![p] = @ \cup {loc[p].seq}]
    /\ pc' = [pc EXCEPT ![p] = "idle"]
    /\ loc' = [loc EXCEPT ![p] = IdleLoc]
    /\ locked' = [locked EXCEPT ![p] = {}]
    /\ UNCHANGED <<now, baseName, nonAlloc>>

\* lines 121-128, 134-135: the insert; on IntegrityError the transaction is rolled
\* back and the loop is entered again
GetCreate(p) ==
    /\ pc[p] = "get_create"
    /\ IF Duplicate(table, baseName[p], loc[p].seq)
         THEN /\ pc' = [pc EXCEPT ![p] = "get_free"]
              /\ UNCHANGED <<table, loc, ret, holds>>
         ELSE /\ table' = table \cup
                     {Assign(baseName[p], loc[p].seq, Owner(p), loc[p].stamp)}
              /\ ret' = [ret EXCEPT ![p] = loc[p].seq]
              /\ holds' = [holds EXCEPT ![p] = @ \cup {loc[p].seq}]
              /\ pc' = [pc EXCEPT ![p] = "idle"]
              /\ loc' = [loc EXCEPT ![p] = IdleLoc]
    /\ locked' = [locked EXCEPT ![p] = {}]
    /\ UNCHANGED <<now, baseName, nonAlloc>>

\* the rows the statement p is about to run must lock
Wanted(p) ==
    LET flt == Filter(table, baseName[p], loc[p].rs, loc[p].re)
    IN  CASE pc[p] = "get_free" -> {KeyOf(r) : r \in FirstFree(flt)}
          [] pc[p] = "get_last" -> {KeyOf(r) : r \in LastAssigned(flt)}
          [] OTHER -> {}

\* lines 129-133: OperationalError (lock wait timeout): rolled back, tried again
GetLockTimeout(p) ==
    /\ pc[p] \in {"get_free", "get_last"}
    /\ LockedByOther(p, Wanted(p))
    /\ pc' = [pc EXCEPT ![p] = "get_free"]
    /\ locked' = [locked EXCEPT ![p] = {}]
    /\ UNCHANGED <<table, now, baseName, loc, ret, holds, nonAlloc>>

(* ----------------------- free() and __purge() -------------------------- *)
\* the filter without owner=self._owner: the row (basename, seq) of any holder
C27_OwnedByAnyone(tbl, base, owner, seq) ==
    {r \in Filter(tbl, base, 0, MAX_SEQ) : r.assigned /\ r.seq = seq}

\* __filter(0).filter(owner=self._owner, seq=seq)
Owned(tbl, base, owner, seq) ==
    {r \in Filter(tbl, base, 0, MAX_SEQ) : r.owner = owner /\ r.seq = seq}

\* lines 153-160: the update of the caller's row (basename, seq), committed;
\* __purge follows when a row was updated
Free(p, seq) ==
    /\ pc[p] = "idle"
    /\ LET hit == Owned(table, baseName[p], Owner(p), seq)
       IN  /\ ~LockedByOther(p, {KeyOf(r) : r \in hit})
           /\ table' = (table \ hit) \cup {Unassign(r, now) : r \in hit}
           /\ pc' = [pc EXCEPT ![p] = IF hit # {} THEN "purge_read" ELSE "idle"]
    /\ holds' = [holds EXCEPT ![p] = @ \ {seq}]
    /\ ret' = [ret EXCEPT ![p] = NoRet]
    /\ UNCHANGED <<locked, now, baseName, loc, nonAlloc>>

\* seq = last.seq in the place of last.seq + 1: the delete starts at the last
\* assigned row
C31_PurgeFromLast(tbl, base) ==
    LET lst == LastAssigned(Filter(tbl, base, 0, MAX_SEQ))
    IN  IF lst = {} THEN 0 ELSE (CHOOSE r \in lst : TRUE).seq

\* lines 164-170: the read, without lock, of the highest assigned seq
PurgeFrom(tbl, base) == NextSeq(Filter(tbl, base, 0, MAX_SEQ), 0)

PurgeRead(p) ==
    /\ pc[p] = "purge_read"
    /\ loc' = [loc EXCEPT ![p].seq = PurgeFrom(table, baseName[p])]
    /\ pc' = [pc EXCEPT ![p] = "purge_delete"]
    /\ UNCHANGED <<table, locked, now, baseName, ret, holds, nonAlloc>>

\* lines 171-174: the delete, in a transaction of its own, of every row from seq on
PurgeDelete(p) ==
    /\ pc[p] = "purge_delete"
    /\ LET gone == Filter(table, baseName[p], loc[p].seq, MAX_SEQ)
       IN  /\ ~LockedByOther(p, {KeyOf(r) : r \in gone})
           /\ table' = table \ gone
    /\ pc' = [pc EXCEPT ![p] = "idle"]
    /\ loc' = [loc EXCEPT ![p] = IdleLoc]
    /\ UNCHANGED <<locked, now, baseName, ret, holds, nonAlloc>>

(* ------------------- release(), releaseOlderThan() --------------------- *)
\* lines 176-180: every row of the caller's identity, in any basename
Release(p) ==
    /\ pc[p] = "idle"
    /\ LET hit == {r \in table : r.owner = Owner(p)}
       IN  /\ ~LockedByOther(p, {KeyOf(r) : r \in hit})
           /\ table' = (table \ hit) \cup {Unassign(r, now) : r \in hit}
    /\ holds' = [holds EXCEPT ![p] = {}]
    /\ pc' = [pc EXCEPT ![p] = "purge_read"]
    /\ ret' = [ret EXCEPT ![p] = NoRet]
    /\ UNCHANGED <<locked, now, baseName, loc, nonAlloc>>

\* lines 182-189: the caller's rows with a stamp before the given one
ReleaseOlderThan(p, stamp) ==
    /\ pc[p] = "idle"
    /\ LET hit == {r \in table : r.owner = Owner(p) /\ r.stamp < stamp}
       IN  /\ ~LockedByOther(p, {KeyOf(r) : r \in hit})
           /\ table' = (table \ hit) \cup {Unassign(r, stamp) : r \in hit}
           /\ holds' = [holds EXCEPT ![p] =
                           @ \ {r.seq : r \in {h \in hit : h.basename = baseName[p]}}]
    /\ pc' = [pc EXCEPT ![p] = "purge_read"]
    /\ ret' = [ret EXCEPT ![p] = NoRet]
    /\ UNCHANGED <<locked, now, baseName, loc, nonAlloc>>

\* the store's clock advances
Tick ==
    /\ now < MaxNow
    /\ now' = now + 1
    /\ UNCHANGED <<table, locked, baseName, pc, loc, ret, holds, nonAlloc>>

(* ----------------- the allocator under concurrent callers -------------- *)
Init ==
    /\ table = {}
    /\ now = 0
    /\ AllocIdle
    /\ NameIdle
    /\ TaskIdle

Next ==
    \/ \E p \in Callers : GetBegin(p, 0, RangeEnd)
    \/ \E p \in Callers : GetSelectFree(p)
    \/ \E p \in Callers : GetSave(p)
    \/ \E p \in Callers : GetSelectLast(p)
    \/ \E p \in Callers : GetCreate(p)
    \/ \E p \in Callers : GetLockTimeout(p)
    \/ \E p \in Callers : \E s \in 0..RangeEnd : Free(p, s)
    \/ \E p \in Callers : PurgeRead(p)
    \/ \E p \in Callers : PurgeDelete(p)
    \/ \E p \in Callers : Release(p)
    \/ \E p \in Callers : \E s \in 0..MaxNow : ReleaseOlderThan(p, s)
    \/ Tick

Spec == Init /\ [][Next]_vars

(* ------------------- racing get() calls on one range ------------------- *)
\* a table an earlier owner left behind: rows 0 .. k-1, the last one assigned
Earlier == "p0uid"

LeftBehind(k) ==
    IF k = 0 THEN {{}}
    ELSE {t \cup {Assign(DefaultBase, k - 1, Earlier, 0)} :
            t \in {{IF a[i] THEN Assign(DefaultBase, i, Earlier, 0)
                             ELSE Unassign(Assign(DefaultBase, i, Earlier, 0), 0) :
                        i \in 0..(k - 2)} : a \in [0..(k - 2) -> BOOLEAN]}}

Available(tbl, rangeStart, rangeEnd) ==
    {s \in rangeStart..rangeEnd :
        ~\E r \in tbl : r.basename = DefaultBase /\ r.seq = s /\ r.assigned}

\* the range has room for every racer
InitRace ==
    /\ table \in {t \in UNION {LeftBehind(k) : k \in 0..(RaceEnd + 1)} :
                     Cardinality(Available(t, 0, RaceEnd)) >= Cardinality(Procs)}
    /\ now = 0
    /\ AllocIdle
    /\ NameIdle
    /\ TaskIdle

\* every process calls get(0, RaceEnd) once
RaceGet(p) ==
    /\ ret[p] = NoRet
    /\ GetBegin(p, 0, RaceEnd)

NextRace ==
    \/ \E p \in Procs : RaceGet(p)
    \/ \E p \in Procs : GetSelectFree(p)
    \/ \E p \in Procs : GetSave(p)
    \/ \E p \in Procs : GetSelectLast(p)
    \/ \E p \in Procs : GetCreate(p)
    \/ \E p \in Procs : GetLockTimeout(p)

SpecRace == InitRace /\ [][NextRace]_vars

\* the steps of one racer
RaceStep(p) ==
    \/ RaceGet(p)
    \/ GetSelectFree(p)
    \/ GetSave(p)
    \/ GetSelectLast(p)
    \/ GetCreate(p)
    \/ GetLockTimeout(p)

NextRaceFair == \E p \in Procs : RaceStep(p)

\* every racer that can take a step goes on running
SpecRaceFair == InitRace /\ [][NextRaceFair]_vars /\ \A p \in Procs : WF_vars(RaceStep(p))

(* ------------------- get() on a store that fails ----------------------- *)
\* lines 129-133: OperationalError for another reason than a lock (the connection
\* dropped): the transaction is rolled back, the connection closed on every fifth
\* attempt, and after a second the loop is entered again
GetOperationalError(p) ==
    /\ pc[p] \in {"get_free", "get_save", "get_last", "get_create"}
    /\ pc' = [pc EXCEPT ![p] = "get_free"]
    /\ locked' = [locked EXCEPT ![p] = {}]
    /\ UNCHANGED <<table, now, baseName, loc, ret, holds, nonAlloc>>

\* the steps of one caller
StallStep(p) ==
    \/ RaceStep(p)
    \/ GetOperationalError(p)

NextStall == \E p \in Procs : StallStep(p)

\* every caller that can take a step goes on running; the store may fail any
\* statement, and may go on failing
SpecStall == InitRace /\ [][NextStall]_vars /\ \A p \in Procs : WF_vars(StallStep(p))

(* ------------- get() calls on a range that is all assigned ------------- *)
\* the range the earlier owner has filled: from its lowest to its highest seq
FullLo(tbl) ==
    CHOOSE s \in 0..FullEnd :
        /\ \E r \in tbl : r.owner = Earlier /\ r.seq = s
        /\ \A r \in tbl : r.owner = Earlier => r.seq >= s

FullHi(tbl) ==
    CHOOSE s \in 0..FullEnd :
        /\ \E r \in tbl : r.owner = Earlier /\ r.seq = s
        /\ \A r \in tbl : r.owner = Earlier => r.seq <= s

\* every integer of [rangeStart, rangeEnd] has an assigned row in the basename
FullyAssigned(tbl, base, rangeStart, rangeEnd) ==
    \A s \in rangeStart..rangeEnd :
        \E r \in tbl : r.basename = base /\ r.seq = s /\ r.assigned

\* the earlier owner holds every seq of [a, b]; rows below a may be left free
InitFull ==
    /\ \E a \in 0..FullEnd : \E b \in a..FullEnd : \E low \in SUBSET (0..(a - 1)) :
          table = {Assign(DefaultBase, i, Earlier, 0) : i \in a..b} \cup
                  {Unassign(Assign(DefaultBase, i, Earlier, 0), 0) : i \in low}
    /\ now = 0
    /\ AllocIdle
    /\ NameIdle
    /\ TaskIdle

\* p1 and p2 call get() once on the filled range, p3 once on [0, FullEnd + 1]
FullGet(p) ==
    /\ ret[p] = NoRet
    /\ IF p = "p3" THEN GetBegin(p, 0, FullEnd + 1)
       ELSE GetBegin(p, FullLo(table), FullHi(table))

\* the steps of one process
FullStep(p) ==
    \/ FullGet(p)
    \/ GetSelectFree(p)
    \/ GetSave(p)
    \/ GetSelectLast(p)
    \/ GetCreate(p)
    \/ GetLockTimeout(p)

NextFull == \E p \in Procs : FullStep(p)

\* every process that can take a step goes on running
SpecFull == InitFull /\ [][NextFull]_vars /\ \A p \in Procs : WF_vars(FullStep(p))

(* ============================ name allocator =========================== *)
NameBases == {Ws, DefaultBase}
NameLengths == {1, 3}
\* the namespace "ws" is empty, or nine names of one digit were given to p1
Prefill == {0, NameRadix - 1}

DigitChar == <<"0", "1", "2", "3", "4", "5", "6", "7", "8", "9">>

RECURSIVE Pow(_, _)
Pow(b, e) == IF e = 0 THEN 1 ELSE b * Pow(b, e - 1)

\* "%d": the decimal digits of a number that is not negative
RECURSIVE Digits(_)
Digits(n) ==
    IF n < 10 THEN <<DigitChar[n + 1]>>
    ELSE Digits(n \div 10) \o <<DigitChar[(n % 10) + 1]>>

\* "%d" in the place of "%0*d": no zeros in front
C9_NoPad(digits, width) == digits

\* "%0*d": zeros in front up to the width; a longer number is left as it is
ZeroPad(digits, width) ==
    IF Len(digits) >= width THEN digits
    ELSE [i \in 1..(width - Len(digits)) |-> "0"] \o digits

\* __toName, lines 45-48, for a seq that is not -1
ToName(base, length, seq) == base \o ZeroPad(Digits(seq), length)

DigitValue(c) == CHOOSE d \in 0..9 : DigitChar[d + 1] = c

\* int(...) of a string of decimal digits
RECURSIVE ParseInt(_)
ParseInt(chars) ==
    IF Len(chars) = 0 THEN 0
    ELSE 10 * ParseInt(SubSeq(chars, 1, Len(chars) - 1)) + DigitValue(chars[Len(chars)])

\* lines 58, 62: int(name[len(self._baseName):])
SeqOfName(base, name) == ParseInt(SubSeq(name, Len(base) + 1, Len(name)))

\* get(), lines 88-141, run with no other transaction open: the free row is taken,
\* or the row after the last assigned one is created
SeqGet(tbl, base, owner, rangeStart, rangeEnd, stamp) ==
    LET flt  == Filter(tbl, base, rangeStart, rangeEnd)
        item == FirstFree(flt)
        seq  == NextSeq(flt, rangeStart)
    IN  IF item # {}
          THEN [seq |-> (CHOOSE r \in item : TRUE).seq,
                table |-> (tbl \ item) \cup
                          {Assign(r.basename, r.seq, owner, stamp) : r \in item}]
          ELSE IF seq > rangeEnd
                 THEN [seq |-> Exhausted, table |-> tbl]
                 ELSE [seq |-> seq, table |-> tbl \cup {Assign(base, seq, owner, stamp)}]

\* __purge, lines 162-174, run with no other transaction open
Purged(tbl, base) == tbl \ Filter(tbl, base, PurgeFrom(tbl, base), MAX_SEQ)

\* free(), lines 151-160, run with no other transaction open
SeqFree(tbl, base, owner, seq, stamp) ==
    LET hit == Owned(tbl, base, owner, seq)
    IN  IF hit = {} THEN tbl
        ELSE Purged((tbl \ hit) \cup {Unassign(r, stamp) : r \in hit}, base)

\* the update of transfer() on a table without the constraint u_uid_base_seq
C32_TransferNoConstraint(tbl, base, owner, seq, toOwner, toBase, stamp) ==
    LET hit == Owned(tbl, base, owner, seq)
    IN  (tbl \ hit) \cup
        {[r EXCEPT !.owner = toOwner, !.basename = toBase, !.stamp = stamp] : r \in hit}

\* transfer(), lines 143-149: the caller's row gets the owner and the basename of
\* the other generator; the update fails on u_uid_base_seq and changes nothing
SeqTransfer(tbl, base, owner, seq, toOwner, toBase, stamp) ==
    LET hit   == Owned(tbl, base, owner, seq)
        moved == {[r EXCEPT !.owner = toOwner, !.basename = toBase, !.stamp = stamp] :
                     r \in hit}
    IN  IF \E m \in moved : Duplicate(tbl \ hit, m.basename, m.seq)
          THEN tbl
          ELSE (tbl \ hit) \cup moved

\* UniqueNameGenerator.get, lines 50-54
NameGet(p, base, length) ==
    /\ ops < MaxOps
    /\ LET g    == SeqGet(table, base, NameOwner(p), 0, Pow(NameRadix, length) - 1, now)
           err  == g.seq = Exhausted
           name == IF err THEN <<>> ELSE ToName(base, length, g.seq)
       IN  /\ table' = g.table
           /\ last' = [op |-> "get", base |-> base, len |-> length,
                       name |-> name, err |-> err]
           /\ named' = IF err THEN named
                       ELSE [named EXCEPT ![p] = @ \cup {[base |-> base, name |-> name]}]
           /\ scen' = IF err THEN Off
                      ELSE IF /\ scen.phase = "gets"
                              /\ scen.n = 0 \/ (scen.base = base /\ scen.len = length)
                             THEN [phase |-> "gets", base |-> base, len |-> length,
                                   n |-> scen.n + 1, name |-> <<>>]
                      ELSE IF scen.phase = "freed" /\ scen.base = base /\ scen.len = length
                             THEN [scen EXCEPT !.phase = "reget"]
                      ELSE Off
    /\ baseName' = [baseName EXCEPT ![p] = base]
    /\ ops' = ops + 1
    /\ UNCHANGED <<locked, now, pc, loc, ret, holds, taskVars, seqVars, runVars>>

\* UniqueNameGenerator.free, lines 60-62
NameFree(p, base, name) ==
    /\ ops < MaxOps
    /\ table' = SeqFree(table, base, NameOwner(p), SeqOfName(base, name), now)
    /\ last' = [op |-> "free", base |-> base, len |-> 0, name |-> name, err |-> FALSE]
    /\ named' = [named EXCEPT ![p] = @ \ {[base |-> base, name |-> name]}]
    /\ scen' = IF scen.phase = "gets" /\ scen.n >= 1 /\ scen.base = base
                 THEN [scen EXCEPT !.phase = "freed", !.name = name]
                 ELSE Off
    /\ baseName' = [baseName EXCEPT ![p] = base]
    /\ ops' = ops + 1
    /\ UNCHANGED <<locked, now, pc, loc, ret, holds, taskVars, seqVars, runVars>>

\* UniqueNameGenerator.transfer, lines 56-58
NameTransfer(p, base, name, q) ==
    /\ ops < MaxOps
    /\ table' = SeqTransfer(table, base, NameOwner(p), SeqOfName(base, name),
                            NameOwner(q), baseName[q], now)
    /\ last' = [op |-> "transfer", base |-> base, len |-> 0, name |-> name, err |-> FALSE]
    /\ named' = [named EXCEPT ![p] = @ \ {[base |-> base, name |-> name]}]
    /\ scen' = Off
    /\ baseName' = [baseName EXCEPT ![p] = base]
    /\ ops' = ops + 1
    /\ UNCHANGED <<locked, now, pc, loc, ret, holds, taskVars, seqVars, runVars>>

InitName ==
    /\ \E k \in Prefill :
         /\ table = {Assign(Ws, i, NameOwner("p1"), 0) : i \in 0..(k - 1)}
         /\ named = [p \in Procs |->
                       IF p = "p1"
                         THEN {[base |-> Ws, name |-> ToName(Ws, 1, i)] : i \in 0..(k - 1)}
                         ELSE {}]
         /\ scen = IF k = 0 THEN [Off EXCEPT !.phase = "gets"] ELSE Off
    /\ last = NoLast
    /\ ops = 0
    /\ now = 0
    /\ AllocIdle
    /\ TaskIdle

NextName ==
    \/ \E p \in Callers : \E base \in NameBases : \E length \in NameLengths :
          NameGet(p, base, length)
    \/ \E p \in Callers : \E e \in named[p] : NameFree(p, e.base, e.name)
    \/ \E p \in Callers : \E q \in Callers \ {p} : \E e \in named[p] :
          NameTransfer(p, e.base, e.name, q)

SpecName == InitName /\ [][NextName]_vars

(* ---------------- base names that end in digits ----------------------- *)
\* a base name and the same one followed by a digit
DigitBases == {<<"w">>, <<"w", "0">>}
DigitLengths == {1, 2}

InitDigits ==
    /\ table = {}
    /\ named = [p \in Procs |-> {}]
    /\ scen = Off
    /\ last = NoLast
    /\ ops = 0
    /\ now = 0
    /\ AllocIdle
    /\ TaskIdle

NextDigits ==
    \/ \E p \in Callers : \E base \in DigitBases : \E length \in DigitLengths :
          NameGet(p, base, length)
    \/ \E p \in Callers : \E e \in named[p] : NameFree(p, e.base, e.name)

SpecDigits == InitDigits /\ [][NextDigits]_vars

(* ------------- allocator calls made one after the other ---------------- *)
\* the ranges get() is called on
SeqRanges == {<<rs, re>> \in (0..SeqEnd) \X (0..SeqEnd) : rs <= re}

\* release(), lines 176-180, run with no other transaction open
SeqRelease(tbl, base, owner, stamp) ==
    LET hit == {r \in tbl : r.owner = owner}
    IN  Purged((tbl \ hit) \cup {Unassign(r, stamp) : r \in hit}, base)

\* get(rangeStart, rangeEnd)
CallGet(p, rangeStart, rangeEnd) ==
    /\ LET g == SeqGet(table, baseName[p], Owner(p), rangeStart, rangeEnd, now)
       IN  /\ table' = g.table
           /\ call' = [op |-> "get", base |-> baseName[p], rs |-> rangeStart,
                       re |-> rangeEnd, seq |-> g.seq, ok |-> g.seq # Exhausted,
                       after |-> call.op]
    /\ UNCHANGED <<locked, now, baseName, pc, loc, ret, holds, nameVars, taskVars, runVars>>

\* free(seq)
CallFree(p, seq) ==
    /\ table' = SeqFree(table, baseName[p], Owner(p), seq, now)
    /\ call' = [op |-> "free", base |-> baseName[p], rs |-> 0, re |-> 0, seq |-> seq,
                ok |-> Owned(table, baseName[p], Owner(p), seq) # {}, after |-> call.op]
    /\ UNCHANGED <<locked, now, baseName, pc, loc, ret, holds, nameVars, taskVars, runVars>>

\* transfer(seq, toUidGen) of a seq the caller holds
CallTransfer(p, seq, q) ==
    /\ Owned(table, baseName[p], Owner(p), seq) # {}
    /\ table' = SeqTransfer(table, baseName[p], Owner(p), seq, Owner(q), baseName[q], now)
    /\ call' = [op |-> "transfer", base |-> baseName[p], rs |-> 0, re |-> 0,
                seq |-> seq, ok |-> table' # table, after |-> call.op]
    /\ UNCHANGED <<locked, now, baseName, pc, loc, ret, holds, nameVars, taskVars, runVars>>

\* release()
CallRelease(p) ==
    /\ table' = SeqRelease(table, baseName[p], Owner(p), now)
    /\ call' = [op |-> "release", base |-> baseName[p], rs |-> 0, re |-> 0,
                seq |-> 0, ok |-> table' # table, after |-> call.op]
    /\ UNCHANGED <<locked, now, baseName, pc, loc, ret, holds, nameVars, taskVars, runVars>>

\* the generators of p1 and p2 are made with the default basename, that of p3
\* with another one; p3 makes no call and is given seqs by transfer() only
InitSeq ==
    /\ table = {}
    /\ now = 0
    /\ locked = [p \in Procs |-> {}]
    /\ baseName = [p \in Procs |-> IF p = "p3" THEN Ws ELSE DefaultBase]
    /\ pc = [p \in Procs |-> "idle"]
    /\ loc = [p \in Procs |-> IdleLoc]
    /\ ret = [p \in Procs |-> NoRet]
    /\ holds = [p \in Procs |-> {}]
    /\ call = NoSeqCall
    /\ NameIdle
    /\ TaskIdle

NextSeqCall ==
    \/ \E p \in Callers : \E rg \in SeqRanges : CallGet(p, rg[1], rg[2])
    \/ \E p \in Callers : \E seq \in 0..SeqEnd : CallFree(p, seq)
    \/ \E p \in Callers : \E q \in Procs \ {p} : \E seq \in 0..SeqEnd :
          CallTransfer(p, seq, q)
    \/ \E p \in Callers : CallRelease(p)

SpecSeq == InitSeq /\ [][NextSeqCall]_vars

(* ---------------- get() on any range, in either order ------------------ *)
\* get(rangeStart, rangeEnd) is called with any two values of 0..RangeTop, also
\* with rangeStart > rangeEnd; free() and its compaction leave free rows and
\* holes in and outside the range of a later call
NextRange ==
    \/ \E p \in Callers : \E rs \in 0..RangeTop : \E re \in 0..RangeTop : GetBegin(p, rs, re)
    \/ \E p \in Callers : GetSelectFree(p)
    \/ \E p \in Callers : GetSave(p)
    \/ \E p \in Callers : GetSelectLast(p)
    \/ \E p \in Callers : GetCreate(p)
    \/ \E p \in Callers : GetLockTimeout(p)
    \/ \E p \in Callers : \E s \in 0..RangeTop : Free(p, s)
    \/ \E p \in Callers : PurgeRead(p)
    \/ \E p \in Callers : PurgeDelete(p)

SpecRange == Init /\ [][NextRange]_vars

(* ------- calls of several generators, compaction in its two steps ------ *)
\* the generator whose calls are looked at; the others are its environment
Caller == "p1"

NoFrameCall == [n |-> 0, op |-> "none", seq |-> 0, to |-> "", stamp |-> 0, flt |-> 0]

\* the caller makes the call c
Made(c) == [c EXCEPT !.n = 1 - call.n]

\* get(0, FrameEnd), lines 78-141, its transaction run with no other one open
FrameGet(p) ==
    /\ pc[p] = "idle"
    /\ LET g == SeqGet(table, baseName[p], Owner(p), 0, FrameEnd, now)
       IN  /\ table' = g.table
           /\ call' = IF p = Caller
                        THEN Made([NoFrameCall EXCEPT !.op = "get", !.seq = g.seq])
                        ELSE call
    /\ UNCHANGED <<locked, now, baseName, pc, loc, ret, holds, nameVars, taskVars, runVars>>

\* free(seq), lines 151-160: the update, committed; __purge follows when a row
\* was updated
FrameFree(p, seq) ==
    /\ pc[p] = "idle"
    /\ LET hit == Owned(table, baseName[p], Owner(p), seq)
       IN  /\ table' = (table \ hit) \cup {Unassign(r, now) : r \in hit}
           /\ pc' = [pc EXCEPT ![p] = IF hit # {} THEN "purge_read" ELSE "idle"]
    /\ call' = IF p = Caller
                 THEN Made([NoFrameCall EXCEPT !.op = "free", !.seq = seq,
                                               !.flt = Cardinality(Owned(table, baseName[p],
                                                                         Owner(p), seq))])
                 ELSE call
    /\ UNCHANGED <<locked, now, baseName, loc, ret, holds, nameVars, taskVars, runVars>>

\* transfer(seq, toUidGen), lines 143-149: one update statement
FrameTransfer(p, seq, q) ==
    /\ pc[p] = "idle"
    /\ table' = SeqTransfer(table, baseName[p], Owner(p), seq, Owner(q), baseName[q], now)
    /\ call' = Made([NoFrameCall EXCEPT !.op = "transfer", !.seq = seq, !.to = q])
    /\ UNCHANGED <<locked, now, baseName, pc, loc, ret, holds, nameVars, taskVars, runVars>>

\* release(), lines 176-180: the update of every row of the caller's identity,
\* then __purge
FrameRelease(p) ==
    /\ pc[p] = "idle"
    /\ LET hit == {r \in table : r.owner = Owner(p)}
       IN  table' = (table \ hit) \cup {Unassign(r, now) : r \in hit}
    /\ pc' = [pc EXCEPT ![p] = "purge_read"]
    /\ call' = Made([NoFrameCall EXCEPT !.op = "release"])
    /\ UNCHANGED <<locked, now, baseName, loc, ret, holds, nameVars, taskVars, runVars>>

\* releaseOlderThan(stamp), lines 182-189
FrameReleaseOlderThan(p, stamp) ==
    /\ pc[p] = "idle"
    /\ LET hit == {r \in table : r.owner = Owner(p) /\ r.stamp < stamp}
       IN  table' = (table \ hit) \cup {Unassign(r, stamp) : r \in hit}
    /\ pc' = [pc EXCEPT ![p] = "purge_read"]
    /\ call' = Made([NoFrameCall EXCEPT !.op = "releaseOlderThan", !.stamp = stamp])
    /\ UNCHANGED <<locked, now, baseName, loc, ret, holds, nameVars, taskVars, runVars>>

\* the generators of p1 and p2 have the default basename, that of p3 another one
InitFrame ==
    /\ table = {}
    /\ now = 0
    /\ locked = [p \in Procs |-> {}]
    /\ baseName = [p \in Procs |-> IF p = "p3" THEN Ws ELSE DefaultBase]
    /\ pc = [p \in Procs |-> "idle"]
    /\ loc = [p \in Procs |-> IdleLoc]
    /\ ret = [p \in Procs |-> NoRet]
    /\ holds = [p \in Procs |-> {}]
    /\ call = NoFrameCall
    /\ NameIdle
    /\ TaskIdle

\* the caller makes every call; p2 calls get() and free(), p3 get()
NextFrame ==
    \/ \E p \in Procs : FrameGet(p)
    \/ \E p \in Callers : \E seq \in 0..FrameEnd : FrameFree(p, seq)
    \/ \E q \in Procs \ {Caller} : \E seq \in 0..FrameEnd : FrameTransfer(Caller, seq, q)
    \/ FrameRelease(Caller)
    \/ \E stamp \in 0..MaxNow : FrameReleaseOlderThan(Caller, stamp)
    \/ \E p \in Callers : PurgeRead(p)
    \/ \E p \in Callers : PurgeDelete(p)
    \/ Tick

SpecFrame == InitFrame /\ [][NextFrame]_vars

(* ======================= delayed task store and runner ================= *)


\* codecs.encode(pickle.dumps(instance), 'base64').decode()
Encode(payload) == <<"base64", <<"pickle", payload>>>>
\* codecs.decode(task.instance.encode(), 'base64')
Decode(instance) == instance[2]
\* a loader that builds the instance anew and leaves its attributes out
C15_LoadsBlank(dump) == [dump[2] EXCEPT !.state = 0]

\* pickle.loads(taskInstanceDump)
Loads(dump) == dump[2]

\* line 140: if taskInstance
Truthy(inst) == "cls" \in DOMAIN inst

\* line 126: codecs.decode raises on text that is not base64
Decodable(instance) == instance[1] = "base64"

\* line 128: pickle.loads raises on bytes that are no pickle of a class it can load
Loadable(dump) == dump[1] = "pickle"

\* lines 126-143: the stored text gives an instance, and its thread is started
Runs(instance) ==
    /\ Decodable(instance)
    /\ Loadable(Decode(instance))
    /\ Truthy(Loads(Decode(instance)))

\* every runner is between two polls
Asleep == \A r \in Runners : rpc[r] = "sleep"

\* a call of the producer has returned
Done(op, tag, res) == [NoCall EXCEPT !.op = op, !.tag = tag, !.res = res, !.quiet = Asleep]

\* a loop that goes on while retries >= 0
C6_OneMoreTry(retries) == retries >= 0

\* insert(), line 170: while retries > 0
KeepTrying(retries) == retries > 0

\* insert(), lines 170-181: the loop, when the store fails the next `fails` writes;
\* the outcome is [retries, attempts, written]
RECURSIVE InsertLoop(_, _, _)
InsertLoop(retries, fails, attempts) ==
    IF ~KeepTrying(retries)
    THEN [retries |-> retries, attempts |-> attempts, written |-> 0]
    ELSE IF fails = 0
         THEN [retries |-> retries - 1, attempts |-> attempts + 1, written |-> 1]
         ELSE InsertLoop(retries - 1, fails - 1, attempts + 1)

\* insert(), lines 183-188: False when retries is 0, True otherwise
InsertResult(retries) == retries # 0

\* __insert(), lines 146-166: the row written at the store's time
NewTask(id, payload, delay, tag, time) ==
    [id |-> id, instance |-> Encode(payload), insert_date |-> time,
     execution_delay |-> delay, execution_time |-> time + delay, tag |-> tag]

\* insert(instance, delay, tag), lines 168-188
Insert(payload, delay, tag, fails) ==
    /\ nextId <= MaxTasks
    /\ LET out == InsertLoop(InsertRetries, fails, 0)
       IN  /\ tasks' = IF out.written = 1
                       THEN tasks \cup {NewTask(nextId, payload, delay, tag, now)}
                       ELSE tasks
           /\ nextId' = nextId + out.written
           /\ fresh' = IF out.written = 1 /\ Asleep THEN fresh \cup {nextId} ELSE fresh
           /\ prod' = [Done("insert", tag, InsertResult(out.retries)) EXCEPT
                         !.fails = fails, !.attempts = out.attempts,
                         !.written = out.written]
    /\ UNCHANGED <<rpc, rloc, executed, cancelled>>
    /\ UNCHANGED <<allocVars, nameVars, seqVars>>

\* a read that takes no row lock: nothing is ever locked by another runner
C4_NoRowLock(r, ids) == FALSE

\* a row an open claim transaction of another runner locks
TaskLockedByOther(r, ids) ==
    \E o \in Runners \ {r} : rpc[o] = "claim_delete" /\ \E t \in rloc[o].task : t.id \in ids

\* a filter that keeps the rows of the other tags
C7_OtherTags(tag) == {t \in tasks : t.tag # tag}

\* filter(tag=tag)
Tagged(tag) == {t \in tasks : t.tag = tag}

\* a delete that does not wait for the rows an open claim has locked
C24_RemoveNoWait(tag) ==
    /\ tasks' = tasks \ Tagged(tag)
    /\ cancelled' = cancelled \cup {t \in tasks : t.tag = tag /\ t.id \in fresh}
    /\ fresh' = fresh \ {t.id : t \in Tagged(tag)}
    /\ prod' = Done("remove", tag, TRUE)
    /\ UNCHANGED <<nextId, rpc, rloc, executed>>
    /\ UNCHANGED <<allocVars, nameVars, seqVars>>

\* remove(), lines 191-195: the rows of the tag are locked and deleted in one
\* transaction
Remove(tag) ==
    /\ ~TaskLockedByOther("", {t.id : t \in Tagged(tag)})
    /\ tasks' = tasks \ Tagged(tag)
    /\ cancelled' = cancelled \cup {t \in tasks : t.tag = tag /\ t.id \in fresh}
    /\ fresh' = fresh \ {t.id : t \in Tagged(tag)}
    /\ prod' = Done("remove", tag, TRUE)
    /\ UNCHANGED <<nextId, rpc, rloc, executed>>
    /\ UNCHANGED <<allocVars, nameVars, seqVars>>

\* remove(), lines 196-197: the wait for a locked row timed out; the exception is
\* logged and remove() returns
RemoveLockTimeout(tag) ==
    /\ TaskLockedByOther("", {t.id : t \in Tagged(tag)})
    /\ cancelled' = cancelled \cup {t \in tasks : t.tag = tag /\ t.id \in fresh}
    /\ prod' = Done("remove", tag, TRUE)
    /\ UNCHANGED <<tasks, nextId, rpc, rloc, executed, fresh>>
    /\ UNCHANGED <<allocVars, nameVars, seqVars>>

\* checkExists() without lines 200-201: the count alone
C38_ExistsAnyTag(tag) == Cardinality(Tagged(tag)) > 0

\* checkExists(), lines 200-209
Exists(tag) == IF tag = "" THEN FALSE ELSE Cardinality(Tagged(tag)) > 0

CheckExists(tag) ==
    /\ prod' = Done("checkExists", tag, Exists(tag))
    /\ UNCHANGED <<tasks, nextId, rpc, rloc, executed, fresh, cancelled>>
    /\ UNCHANGED <<allocVars, nameVars, seqVars>>

\* run(), lines 213-216, and executeOneDelayedTask, line 109: the sleep ends and the
\* store's time is read
RunnerWake(r) ==
    /\ rpc[r] = "sleep"
    /\ rpc' = [rpc EXCEPT ![r] = "poll"]
    /\ rloc' = [rloc EXCEPT ![r] = [now |-> now, task |-> {}]]
    /\ fresh' = {}
    /\ UNCHANGED <<tasks, nextId, prod, executed, cancelled>>
    /\ UNCHANGED <<allocVars, nameVars, seqVars>>

\* a filter that also takes the rows whose execution_time is now
C8_DueAtNow(t, time) ==
    \/ t.execution_time <= time
    \/ t.insert_date > time + SkewTolerance

\* a filter without the insert_date clause
C23_NoSkewRule(t, time) == t.execution_time < time

\* lines 110-112: execution_time before now, or insert_date more than 30 s after it
Eligible(t, time) ==
    \/ t.execution_time < time
    \/ t.insert_date > time + SkewTolerance

\* order_by('-execution_time'): the due row with the latest execution_time
C16_LastDue(time) ==
    LET due == {t \in tasks : Eligible(t, time)}
    IN  {t \in due : \A o \in due : t.execution_time >= o.execution_time}

\* lines 117-121: filter(filt).order_by('execution_time')[0]; rows with the same
\* execution_time come in any order
FirstDue(time) ==
    LET due == {t \in tasks : Eligible(t, time)}
    IN  {t \in due : \A o \in due : t.execution_time <= o.execution_time}

\* lines 115-121: the locking read of the first due row
ClaimSelect(r) ==
    /\ rpc[r] = "poll"
    /\ \E t \in FirstDue(rloc[r].now) :
         /\ ~TaskLockedByOther(r, {t.id})
         /\ rloc' = [rloc EXCEPT ![r].task = {t}]
    /\ rpc' = [rpc EXCEPT ![r] = "claim_delete"]
    /\ UNCHANGED <<tasks, nextId, prod, executed, fresh, cancelled>>
    /\ UNCHANGED <<allocVars, nameVars, seqVars>>

\* lines 129-130: IndexError, no row is due
ClaimNothing(r) ==
    /\ rpc[r] = "poll"
    /\ FirstDue(rloc[r].now) = {}
    /\ rpc' = [rpc EXCEPT ![r] = "sleep"]
    /\ rloc' = [rloc EXCEPT ![r] = IdleRloc]
    /\ UNCHANGED <<tasks, nextId, prod, executed, fresh, cancelled>>
    /\ UNCHANGED <<allocVars, nameVars, seqVars>>

\* lines 131-133: OperationalError, the wait for the locked row timed out
ClaimLockTimeout(r) ==
    /\ rpc[r] = "poll"
    /\ \E t \in FirstDue(rloc[r].now) : TaskLockedByOther(r, {t.id})
    /\ rpc' = [rpc EXCEPT ![r] = "sleep"]
    /\ rloc' = [rloc EXCEPT ![r] = IdleRloc]
    /\ UNCHANGED <<tasks, nextId, prod, executed, fresh, cancelled>>
    /\ UNCHANGED <<allocVars, nameVars, seqVars>>

\* lines 126-128, 134-143: the payload is decoded, the row deleted, the transaction
\* committed, the instance loaded and its thread started.  When the decoding
\* raises, the transaction is rolled back and the row stays; when the loading
\* raises, the row is gone and no thread is started
ClaimDelete(r) ==
    /\ rpc[r] = "claim_delete"
    /\ tasks' = tasks \ {t \in rloc[r].task : Decodable(t.instance)}
    /\ executed' = [i \in DOMAIN executed |->
           IF \E t \in rloc[r].task : t.id = i /\ Runs(t.instance)
           THEN executed[i] + 1 ELSE executed[i]]
    /\ rpc' = [rpc EXCEPT ![r] = "sleep"]
    /\ rloc' = [rloc EXCEPT ![r] = IdleRloc]
    /\ UNCHANGED <<nextId, prod, fresh, cancelled>>
    /\ UNCHANGED <<allocVars, nameVars, seqVars>>

\* the store's clock advances
TickTask ==
    /\ now < MaxClock
    /\ now' = now + 1
    /\ UNCHANGED <<table, locked, baseName, pc, loc, ret, holds, nameVars, taskVars, seqVars>>

InitTask ==
    /\ table = {}
    /\ now = 0
    /\ AllocIdle
    /\ NameIdle
    /\ TaskIdle

TaskStep ==
    \/ \E payload \in Payloads : \E delay \in Delays : \E tag \in Tags :
          \E fails \in 0..MaxFails : Insert(payload, delay, tag, fails)
    \/ \E tag \in Tags : Remove(tag)
    \/ \E tag \in Tags : RemoveLockTimeout(tag)
    \/ \E tag \in Tags : CheckExists(tag)
    \/ \E r \in Runners : RunnerWake(r)
    \/ \E r \in Runners : ClaimSelect(r)
    \/ \E r \in Runners : ClaimNothing(r)
    \/ \E r \in Runners : ClaimLockTimeout(r)
    \/ \E r \in Runners : ClaimDelete(r)
    \/ TickTask

NextTask == TaskStep /\ UNCHANGED runVars

SpecTask == InitTask /\ [][NextTask]_vars

(* ===================== the runner threads of a process ================= *)
\* the task instance a producer has handed to insert() for row id
PayloadOf(id) == [cls |-> IF id % 2 = 1 THEN "A" ELSE "B", state |-> id]

\* the delay it was inserted with
DelayOf(id) == id % 2

\* line 142: Environment.getEnvForType(taskInstance.__class__)
EnvForType(cls) == <<"env", cls>>

\* lines 140-143: the loaded instance is given its environment and handed to a
\* DelayedTaskThread, which is started
Started(instance) ==
    LET inst == Loads(Decode(instance))
    IN  [st |-> "running",
         inst |-> [cls |-> inst.cls, state |-> inst.state, env |-> EnvForType(inst.cls)]]

\* runner(), line 104: if DelayedTaskRunner._runner is None
RunnerCheck(r) ==
    /\ boot[r] = "call"
    /\ boot' = [boot EXCEPT ![r] = IF single = 0 THEN "saw_none" ELSE "assigned"]
    /\ UNCHANGED <<single, made, keep, mine, work>>
    /\ UNCHANGED <<allocVars, nameVars, seqVars, taskVars>>

\* runner(), line 105, and __init__, lines 85-88: an instance is constructed with
\* _keepRunning True and stored in DelayedTaskRunner._runner
RunnerMake(r) ==
    /\ boot[r] = "saw_none"
    /\ made' = made + 1
    /\ keep' = Append(keep, TRUE)
    /\ single' = made + 1
    /\ boot' = [boot EXCEPT ![r] = "assigned"]
    /\ UNCHANGED <<mine, work>>
    /\ UNCHANGED <<allocVars, nameVars, seqVars, taskVars>>

\* runner(), line 106: return DelayedTaskRunner._runner
RunnerReturn(r) ==
    /\ boot[r] = "assigned"
    /\ mine' = [mine EXCEPT ![r] = single]
    /\ boot' = [boot EXCEPT ![r] = "got"]
    /\ UNCHANGED <<single, made, keep, work>>
    /\ UNCHANGED <<allocVars, nameVars, seqVars, taskVars>>

\* notifyTermination(), lines 90-95, on an instance
NotifyTermination(i) ==
    /\ keep[i]
    /\ keep' = [keep EXCEPT ![i] = FALSE]
    /\ UNCHANGED <<single, made, boot, mine, work>>
    /\ UNCHANGED <<allocVars, nameVars, seqVars, taskVars>>

\* run(), lines 213-215: _keepRunning is read as true and time.sleep is entered
RunCheck(r) ==
    /\ boot[r] = "got"
    /\ rpc[r] = "sleep"
    /\ keep[mine[r]]
    /\ boot' = [boot EXCEPT ![r] = "sleeping"]
    /\ UNCHANGED <<single, made, keep, mine, work>>
    /\ UNCHANGED <<allocVars, nameVars, seqVars, taskVars>>

\* a loop that joins the threads it started before it polls again
C20_WakeWhenJoined(r) ==
    /\ boot[r] = "sleeping"
    /\ \A id \in DOMAIN work : work[id].st # "running"
    /\ RunnerWake(r)
    /\ boot' = [boot EXCEPT ![r] = "got"]
    /\ UNCHANGED <<single, made, keep, mine, work>>

\* run(), lines 215-216, and executeOneDelayedTask, line 109: the sleep ends
\* and the poll begins, whatever _keepRunning is by then
RunWake(r) ==
    /\ boot[r] = "sleeping"
    /\ RunnerWake(r)
    /\ boot' = [boot EXCEPT ![r] = "got"]
    /\ UNCHANGED <<single, made, keep, mine, work>>

\* run(), lines 213, 223: _keepRunning is false, the loop is left
RunExit(r) ==
    /\ boot[r] = "got"
    /\ rpc[r] = "sleep"
    /\ ~keep[mine[r]]
    /\ rpc' = [rpc EXCEPT ![r] = "exited"]
    /\ UNCHANGED <<tasks, nextId, prod, rloc, executed, fresh, cancelled>>
    /\ UNCHANGED <<allocVars, nameVars, seqVars, runVars>>

\* a loop with no except clause: the exception ends it
C18_ErrorEndsLoop(r) ==
    /\ rpc[r] = "poll"
    /\ rpc' = [rpc EXCEPT ![r] = "exited"]
    /\ rloc' = [rloc EXCEPT ![r] = IdleRloc]
    /\ UNCHANGED <<tasks, nextId, prod, executed, fresh, cancelled>>
    /\ UNCHANGED <<allocVars, nameVars, seqVars, runVars>>

\* executeOneDelayedTask, line 109, and run(), lines 217-222: reading the store's
\* time fails; the exception is caught in the loop, which goes on
RunPollError(r) ==
    /\ rpc[r] = "poll"
    /\ rpc' = [rpc EXCEPT ![r] = "sleep"]
    /\ rloc' = [rloc EXCEPT ![r] = IdleRloc]
    /\ UNCHANGED <<tasks, nextId, prod, executed, fresh, cancelled>>
    /\ UNCHANGED <<allocVars, nameVars, seqVars, runVars>>

\* executeOneDelayedTask, lines 126-143: the claim commits and the thread of the
\* task is started; the loop does not wait for it
RunClaimDelete(r) ==
    /\ ClaimDelete(r)
    /\ work' = [i \in DOMAIN work |->
                  IF \E t \in rloc[r].task : t.id = i /\ Runs(t.instance)
                    THEN Started((CHOOSE t \in rloc[r].task : t.id = i).instance)
                    ELSE work[i]]
    /\ UNCHANGED <<single, made, keep, boot, mine>>

\* DelayedTaskThread.run, line 66: execute() returns
ThreadFinish(id) ==
    /\ work[id].st = "running"
    /\ work' = [work EXCEPT ![id].st = "done"]
    /\ UNCHANGED <<single, made, keep, boot, mine>>
    /\ UNCHANGED <<allocVars, nameVars, seqVars, taskVars>>

\* a task run in the thread of the loop, with no except clause around it
C19_RaiseEndsLoops(id) ==
    /\ work[id].st = "running"
    /\ work' = [work EXCEPT ![id].st = "raised"]
    /\ rpc' = [r \in Runners |-> "exited"]
    /\ UNCHANGED <<tasks, nextId, prod, rloc, executed, fresh, cancelled>>
    /\ UNCHANGED <<single, made, keep, boot, mine>>
    /\ UNCHANGED <<allocVars, nameVars, seqVars>>

\* DelayedTaskThread.run, lines 67-70: execute() raises; the exception is logged
\* in the thread of the task
ThreadRaise(id) ==
    /\ work[id].st = "running"
    /\ work' = [work EXCEPT ![id].st = "raised"]
    /\ UNCHANGED <<single, made, keep, boot, mine>>
    /\ UNCHANGED <<allocVars, nameVars, seqVars, taskVars>>

\* RunTasks rows were inserted at time 0; no thread has called runner() yet
InitRun ==
    /\ table = {}
    /\ now = 0
    /\ AllocIdle
    /\ NameIdle
    /\ tasks = {NewTask(i, PayloadOf(i), DelayOf(i), "", 0) : i \in 1..RunTasks}
    /\ nextId = RunTasks + 1
    /\ prod = NoCall
    /\ rpc = [r \in Runners |-> "sleep"]
    /\ rloc = [r \in Runners |-> IdleRloc]
    /\ executed = [i \in 1..RunTasks |-> 0]
    /\ fresh = {}
    /\ cancelled = {}
    /\ single = 0
    /\ made = 0
    /\ keep = <<>>
    /\ boot = [r \in Runners |-> "call"]
    /\ mine = [r \in Runners |-> 0]
    /\ work = [i \in 1..RunTasks |-> NoWork]

\* the steps of the thread r
RunStep(r) ==
    \/ RunnerCheck(r)
    \/ RunnerMake(r)
    \/ RunnerReturn(r)
    \/ RunCheck(r)
    \/ RunWake(r)
    \/ RunExit(r)
    \/ RunPollError(r)
    \/ ClaimSelect(r) /\ UNCHANGED runVars
    \/ ClaimNothing(r) /\ UNCHANGED runVars
    \/ ClaimLockTimeout(r) /\ UNCHANGED runVars
    \/ RunClaimDelete(r)

NextRun ==
    \/ \E r \in Runners : RunStep(r)
    \/ \E i \in 1..made : NotifyTermination(i)
    \/ \E id \in 1..RunTasks : ThreadFinish(id)
    \/ \E id \in 1..RunTasks : ThreadRaise(id)
    \/ TickTask /\ UNCHANGED runVars

\* every thread that can take a step goes on running, a poll that can claim over
\* and over does so in the end (store errors are transient) and the clock goes
\* on; a task may never return, and the stop signal may never come
SpecRun ==
    /\ InitRun
    /\ [][NextRun]_vars
    /\ \A r \in Runners : WF_vars(RunStep(r))
    /\ \A r \in Runners : SF_vars(ClaimSelect(r) /\ UNCHANGED runVars)
    /\ WF_vars(TickTask /\ UNCHANGED runVars)

(* ------------------ the store's clock is set back ---------------------- *)
\* line 113: "clock changed on this server": the store's time jumps back to a
\* time within [0, MaxClock]
ClockSetBack ==
    /\ now > MaxClock
    /\ \E n \in 0..MaxClock : now' = n
    /\ UNCHANGED <<table, locked, baseName, pc, loc, ret, holds>>
    /\ UNCHANGED <<nameVars, taskVars, seqVars, runVars>>

\* the clock is SkewTolerance or more ahead of the time it is set back to
InitSkew ==
    /\ table = {}
    /\ now \in SkewTolerance..(SkewTolerance + MaxClock)
    /\ AllocIdle
    /\ NameIdle
    /\ TaskIdle

SkewStep ==
    \/ \E payload \in Payloads : \E delay \in Delays : Insert(payload, delay, "", 0)
    \/ \E r \in Runners : RunnerWake(r)
    \/ \E r \in Runners : ClaimSelect(r)
    \/ \E r \in Runners : ClaimNothing(r)
    \/ \E r \in Runners : ClaimLockTimeout(r)
    \/ \E r \in Runners : ClaimDelete(r)
    \/ TickTask

NextSkew ==
    \/ SkewStep /\ UNCHANGED runVars
    \/ ClockSetBack

SpecSkew == InitSkew /\ [][NextSkew]_vars

(* ------------------ rows whose stored payload is damaged -------------- *)
\* what the instance column of a row holds: the text insert() wrote, a text that
\* is not base64, or the base64 of bytes that pickle cannot load
Kinds == {"ok", "text", "bytes"}

Stored(kind, payload) ==
    CASE kind = "text"  -> <<"damaged", <<"pickle", payload>>>>
      [] kind = "bytes" -> <<"base64", <<"damaged", payload>>>>
      [] OTHER          -> Encode(payload)

\* the rows of InitRun, each with a payload of some kind
InitBad ==
    /\ table = {}
    /\ now = 0
    /\ AllocIdle
    /\ NameIdle
    /\ \E kind \in [1..RunTasks -> Kinds] :
          tasks = {[NewTask(i, PayloadOf(i), DelayOf(i), "", 0) EXCEPT
                       !.instance = Stored(kind[i], PayloadOf(i))] : i \in 1..RunTasks}
    /\ nextId = RunTasks + 1
    /\ prod = NoCall
    /\ rpc = [r \in Runners |-> "sleep"]
    /\ rloc = [r \in Runners |-> IdleRloc]
    /\ executed = [i \in 1..RunTasks |-> 0]
    /\ fresh = {}
    /\ cancelled = {}
    /\ single = 0
    /\ made = 0
    /\ keep = <<>>
    /\ boot = [r \in Runners |-> "call"]
    /\ mine = [r \in Runners |-> 0]
    /\ work = [i \in 1..RunTasks |-> NoWork]

SpecBad == InitBad /\ [][NextRun]_vars

\* SpecBad with the scheduling of SpecRun: every thread goes on running, a poll
\* that can claim over and over does so in the end, and the clock goes on
SpecBadFair ==
    /\ InitBad
    /\ [][NextRun]_vars
    /\ \A r \in Runners : WF_vars(RunStep(r))
    /\ \A r \in Runners : SF_vars(ClaimSelect(r) /\ UNCHANGED runVars)
    /\ WF_vars(TickTask /\ UNCHANGED runVars)

(* ------------------------------ claims --------------------------------- *)
\* C1: at most one caller holds a given sequence number at a time: a seq that
\* get() returned to one caller is returned to no other caller before its holder
\* has freed or released it.
C1_OneHolderPerSeq ==
    \A p \in Procs : \A q \in Procs \ {p} : holds[p] \cap holds[q] = {}

\* C3: compaction never removes a still-assigned seq: a row that is assigned when
\* a step is taken is still in the table after the step.
C3_PurgeKeepsAssigned ==
    [][\A r \in table : r.assigned =>
          \E n \in table' : n.basename = r.basename /\ n.seq = r.seq]_vars

\* C2: racing get() calls on one basename and range, no more of them than the
\* range has room for, return pairwise distinct sequence numbers, none of them -1.
C2_RacersGetDistinct ==
    \A p \in Procs :
        ret[p] # NoRet =>
            /\ ret[p] # Exhausted
            /\ \A q \in Procs \ {p} : ret[q] # ret[p]

\* a racer is about to insert the seq another racer has just been given
C2_Witness ==
    \E p \in Procs : \E q \in Procs \ {p} :
        /\ pc[p] = "get_create"
        /\ ret[q] = loc[p].seq
        /\ \E o \in Procs \ {p, q} : ret[o] # NoRet /\ ret[o] # ret[q]

\* C4: every inserted row is executed at most once, and no row is claimed by two
\* claim transactions: two runners never hold the same row.
C4_ExecutedAtMostOnce ==
    /\ \A i \in DOMAIN executed : executed[i] <= 1
    /\ \A r \in Runners : \A o \in Runners \ {r} :
          rpc[r] = "claim_delete" /\ rpc[o] = "claim_delete" =>
              {t.id : t \in rloc[r].task} \cap {t.id : t \in rloc[o].task} = {}

\* a runner holds a row that is also the first due row of another runner's poll
C4_Witness ==
    \E r \in Runners : \E o \in Runners \ {r} :
        /\ rpc[r] = "claim_delete"
        /\ rloc[r].task # {}
        /\ rpc[o] = "poll"
        /\ rloc[r].task \subseteq FirstDue(rloc[o].now)

\* C5: insert() returns true if and only if exactly one row was written; it
\* returns false only after all attempts failed, and then no row was written.
C5_TrueIffWritten ==
    prod.op = "insert" =>
        /\ prod.res <=> prod.written = 1
        /\ ~prod.res => prod.fails >= 3 /\ prod.written = 0

\* C6: insert() makes at most 3 write attempts, one more after every failed one
\* until the third, and returns after the third at the latest.
C6_AtMostThreeAttempts ==
    prod.op = "insert" =>
        /\ prod.attempts <= 3
        /\ prod.attempts = IF prod.fails < 3 THEN prod.fails + 1 ELSE 3

\* insert() has returned after three failed attempts
C6_Witness ==
    /\ prod.op = "insert"
    /\ prod.fails >= 3
    /\ prod.attempts = 3
    /\ prod.written = 0

\* C7: a row removed by remove(tag) before any runner polled since its insert is
\* in the table no more and is never held or executed by a runner, and a
\* checkExists(tag) that follows such a remove(tag) returns false.
C7_RemovedNeverRuns ==
    /\ [](\A t \in cancelled :
             /\ t \notin tasks
             /\ executed[t.id] = 0
             /\ \A r \in Runners : t \notin rloc[r].task)
    /\ [][(/\ prod.op = "remove"
           /\ prod.quiet
           /\ prod'.op = "checkExists"
           /\ prod'.tag = prod.tag) => ~prod'.res]_vars

\* a row of delay 0 and tag "t1" was removed that way, checkExists("t1") has
\* returned false, and a runner polls at a time when the row would be due
C7_Witness ==
    \E t \in cancelled :
        /\ t.execution_delay = 0
        /\ t.tag = "t1"
        /\ prod.op = "checkExists"
        /\ prod.tag = "t1"
        /\ ~prod.res
        /\ \E r \in Runners : rpc[r] = "poll" /\ rloc[r].now > t.execution_time

\* C8: a claim call made at time `now` takes a row only if the row's insert time
\* plus its delay is before `now`, and it ends without a row only if no such row
\* is in the table or another runner's claim holds one.
C8_ClaimedWhenDue ==
    [][\A r \in Runners :
          rpc[r] = "poll" =>
              /\ rpc'[r] = "claim_delete" =>
                    \A t \in rloc'[r].task :
                        t.insert_date + t.execution_delay < rloc[r].now
              /\ rpc'[r] = "sleep" =>
                    \/ \A t \in tasks :
                          ~(t.insert_date + t.execution_delay < rloc[r].now)
                    \/ \E o \in Runners \ {r} :
                          /\ rpc[o] = "claim_delete"
                          /\ \E t \in rloc[o].task :
                                t.insert_date + t.execution_delay < rloc[r].now]_vars

\* a row with a delay is held by a call made after its execution time, while a
\* call made between its insert and its execution time is still going on
C8_Witness ==
    \E r \in Runners : \E o \in Runners \ {r} :
        /\ rpc[r] = "claim_delete"
        /\ rpc[o] = "poll"
        /\ \E t \in rloc[r].task :
              /\ t.execution_delay > 0
              /\ rloc[r].now > t.execution_time
              /\ rloc[o].now >= t.insert_date
              /\ rloc[o].now < t.execution_time

\* C9: the n-th of successive get(base, L) calls on an empty namespace returns
\* base followed by n - 1 zero-padded to L digits, and the get(base, L) after
\* freeing one of those names returns the freed name.
C9_NamesInOrder ==
    /\ scen.phase = "gets" /\ scen.n >= 1 =>
          /\ last.op = "get"
          /\ ~last.err
          /\ last.name = scen.base \o [i \in 1..(scen.len - 1) |-> "0"]
                                   \o <<DigitChar[scen.n]>>
    /\ scen.phase = "reget" =>
          /\ last.op = "get"
          /\ last.name = scen.name

\* "ws000" and "ws001" were allocated, "ws000" was freed and allocated again
C9_Witness ==
    /\ scen.phase = "reget"
    /\ scen.n = 2
    /\ scen.len = 3
    /\ scen.name = <<"w", "s", "0", "0", "0">>
    /\ last.name = scen.name

\* C10: get(baseName, length) raises the exhausted error exactly when all
\* 10^length sequence numbers of the basename are assigned, and then it
\* allocates nothing.
C10_ExhaustedIffFull ==
    [][(ops' = ops + 1 /\ last'.op = "get") =>
          /\ last'.err <=>
                \A i \in 0..(Pow(10, last'.len) - 1) :
                    \E r \in table :
                        r.basename = last'.base /\ r.seq = i /\ r.assigned
          /\ last'.err => table' = table]_vars

\* C11: a get() on a range whose every integer is assigned returns -1 without
\* creating or changing a row, and every such call returns, whatever other
\* get() calls run at the same time.
C11_ExhaustedReturns ==
    /\ [][\A p \in Procs :
            (/\ pc[p] # "idle"
             /\ FullyAssigned(table, baseName[p], loc[p].rs, loc[p].re)) =>
                /\ pc'[p] # pc[p] => table' = table
                /\ pc'[p] = "idle" => ret'[p] = Exhausted]_vars
    /\ \A p \in Procs :
          (/\ pc[p] # "idle"
           /\ FullyAssigned(table, baseName[p], loc[p].rs, loc[p].re))
             ~> (ret[p] = Exhausted)

\* a get() on a range of one assigned integer has returned -1, while the get()
\* of another process on a wider range was given a seq
C11_Witness ==
    /\ FullLo(table) = FullHi(table)
    /\ ret["p1"] = Exhausted
    /\ ret["p3"] # NoRet
    /\ ret["p3"] # Exhausted

\* C12 as stated: two get() calls on one basename, made one right after the
\* other, return two distinct integers.
C12_TwoGetsDiffer ==
    [][(/\ call.op = "get"
        /\ call'.op = "get"
        /\ call'.after = "get"
        /\ call'.base = call.base) => call'.seq # call.seq]_vars

\* C12: two get() calls on one basename, made one right after the other, return
\* two distinct integers unless both return the exhausted sentinel -1.
C12_TwoGetsDifferUnlessExhausted ==
    [][(/\ call.op = "get"
        /\ call'.op = "get"
        /\ call'.after = "get"
        /\ call'.base = call.base) =>
            \/ call'.seq # call.seq
            \/ call.seq = Exhausted /\ call'.seq = Exhausted]_vars

\* a get() right after a get() on the same range was given the seq after the
\* one the first was given
C12_Witness ==
    /\ call.op = "get"
    /\ call.after = "get"
    /\ call.rs = 0
    /\ call.seq = 1
    /\ \E r \in table : r.basename = call.base /\ r.seq = 0 /\ r.assigned /\ r.stamp = now

\* C13: the get() right after a free(seq) that freed the caller's row, on a range
\* that contains seq, returns a value that is not above seq, and seq itself when
\* every lower integer of the range is assigned; a get() on a range with
\* unassigned rows returns the lowest seq of those rows.
C13_SlotReuse ==
    [][call'.op = "get" =>
          /\ (/\ call.op = "free"
              /\ call.ok
              /\ call'.after = "free"
              /\ call'.base = call.base
              /\ call'.rs <= call.seq
              /\ call.seq <= call'.re) =>
                 /\ call'.seq # Exhausted
                 /\ call'.seq <= call.seq
                 /\ FullyAssigned(table, call.base, call'.rs, call.seq - 1) =>
                       call'.seq = call.seq
          /\ \A r \in Filter(table, call'.base, call'.rs, call'.re) :
                ~r.assigned => call'.seq # Exhausted /\ call'.seq <= r.seq
          /\ (\E r \in Filter(table, call'.base, call'.rs, call'.re) : ~r.assigned) =>
                \E r \in Filter(table, call'.base, call'.rs, call'.re) :
                    ~r.assigned /\ r.seq = call'.seq]_vars

\* seq 1 was freed while 0 and 2 were assigned, and the get() right after it on
\* [0, 2] returned 1 again
C13_Witness ==
    /\ call.op = "get"
    /\ call.after = "free"
    /\ call.rs = 0
    /\ call.re = 2
    /\ call.seq = 1
    /\ FullyAssigned(table, call.base, 0, 2)

\* C14: get(rangeStart, rangeEnd) returns the smallest integer of the range that
\* is not assigned in the caller's basename, and -1 only when every integer of
\* the range is assigned.
C14_SmallestAvailable ==
    [][call'.op = "get" =>
          LET avail == {i \in call'.rs..call'.re :
                           ~\E r \in table :
                               r.basename = call'.base /\ r.seq = i /\ r.assigned}
          IN  /\ avail = {} <=> call'.seq = Exhausted
              /\ avail # {} => call'.seq \in avail /\ \A i \in avail : call'.seq <= i]_vars

\* the row with this id is in the task table
Queued(id) == \E t \in tasks : t.id = id

\* notifyTermination() was called on some instance
StopGiven == \E i \in 1..made : ~keep[i]

C16_EarliestFirst ==
    [][\A r \in Runners :
          (rpc[r] = "poll" /\ rpc'[r] = "claim_delete") =>
              \A t \in rloc'[r].task : \A u \in tasks :
                  (\/ u.execution_time < rloc[r].now
                   \/ u.insert_date > rloc[r].now + 30) =>
                      t.execution_time <= u.execution_time]_vars

\* a runner holds a row while a row with a later execution_time, due as well for
\* that poll, is left in the table
C16_Witness ==
    \E r \in Runners :
        /\ rpc[r] = "claim_delete"
        /\ \E t \in rloc[r].task : \E u \in tasks :
              /\ u.execution_time < rloc[r].now
              /\ t.execution_time < u.execution_time

\* C17: one instance is made in a process, every thread is given that instance
\* by runner(), and once notifyTermination() was called the flag of every
\* thread's instance is cleared.
C17_OneInstance ==
    /\ made <= 1
    /\ \A r \in Runners : \A o \in Runners :
          boot[r] = "got" /\ boot[o] = "got" => mine[r] = mine[o]
    /\ StopGiven => \A r \in Runners : boot[r] = "got" => ~keep[mine[r]]

\* C18: a loop is left only when the flag of its instance was cleared by
\* notifyTermination(), never on an exception of a poll; leaving it changes no
\* task thread; and once the flag is cleared the loop is left in the end.
C18_StopsOnlyOnSignal ==
    /\ [][\A r \in Runners :
            (rpc[r] # "exited" /\ rpc'[r] = "exited") =>
                /\ boot[r] = "got"
                /\ ~keep[mine[r]]
                /\ work' = work]_vars
    /\ \A r \in Runners :
          (boot[r] = "got" /\ ~keep[mine[r]]) ~> (rpc[r] = "exited")

\* a loop was left while the thread of a task it started is still running
C18_Witness ==
    \E r \in Runners : \E id \in DOMAIN work :
        /\ rpc[r] = "exited"
        /\ work[id].st = "running"

\* C19: when execute() raises, no loop, no flag and no row changes, and a row
\* that is in the table after a task has raised is still claimed in the end,
\* unless the stop signal is given.
C19_TaskErrorConfined ==
    /\ [][\A id \in DOMAIN work :
            (work[id].st = "running" /\ work'[id].st = "raised") =>
                UNCHANGED <<rpc, rloc, keep, tasks>>]_vars
    /\ \A id \in 1..RunTasks :
          ((\E o \in DOMAIN work : work[o].st = "raised") /\ Queued(id))
             ~> (~Queued(id) \/ StopGiven)

\* a runner claims a row after the task of another row has raised
C19_Witness ==
    \E r \in Runners : \E o \in DOMAIN work :
        /\ work[o].st = "raised"
        /\ rpc[r] = "claim_delete"
        /\ rloc[r].task # {}

\* C20: while a task is running (it may never return) a row that is in the
\* table is still claimed in the end, unless the stop signal is given.
C20_LoopDoesNotWait ==
    \A id \in 1..RunTasks :
        ((\E o \in DOMAIN work : work[o].st = "running") /\ Queued(id))
           ~> (~Queued(id) \/ StopGiven)

\* a runner claims a row while the task of another row is running
C20_Witness ==
    \E r \in Runners : \E o \in DOMAIN work :
        /\ work[o].st = "running"
        /\ rpc[r] = "claim_delete"
        /\ rloc[r].task # {}

\* C21: when a claim that found a due row returns, the row is in the table no
\* more, also when its payload cannot be decoded or loaded; and no thread is
\* ever started for a row whose payload cannot be decoded or loaded.
C21_ClaimedRowGone ==
    /\ [][\A r \in Runners :
            (rpc[r] = "claim_delete" /\ rpc'[r] # "claim_delete") =>
                rloc[r].task \cap tasks' = {}]_vars
    /\ [](\A t \in tasks : ~Runs(t.instance) => work[t.id].st = "none")

\* C22: a claim call made at a time `now` takes a row when a row with
\* execution_time <= now is in the table and no other runner's claim holds a row.
C22_DueAtNowClaimed ==
    [][\A r \in Runners :
          (/\ rpc[r] = "poll"
           /\ rpc'[r] = "sleep"
           /\ \A o \in Runners \ {r} : rpc[o] # "claim_delete") =>
              \A t \in tasks : ~(t.execution_time <= rloc[r].now)]_vars

\* C23: a claim takes a row only if its execution_time is before now or its
\* insert_date is more than 30 seconds after now, and a claim call ends without
\* a row, while no other runner's claim holds one, only if no row of the table
\* has an insert_date more than 30 seconds after now.
C23_SkewRule ==
    [][\A r \in Runners :
          rpc[r] = "poll" =>
              /\ rpc'[r] = "claim_delete" =>
                    \A t \in rloc'[r].task :
                        \/ t.insert_date > rloc[r].now + SkewTolerance
                        \/ t.execution_time < rloc[r].now
              /\ (/\ rpc'[r] = "sleep"
                  /\ \A o \in Runners \ {r} : rpc[o] # "claim_delete") =>
                    \A t \in tasks : t.insert_date <= rloc[r].now + SkewTolerance]_vars

\* a runner holds a row whose execution_time is not before the time of its
\* poll and whose insert_date is more than 30 seconds after it; the clock has
\* since reached the time at which insert_date is 30 seconds ahead and no more
C23_Witness ==
    \E r \in Runners : \E o \in Runners \ {r} :
        /\ rpc[r] = "claim_delete"
        /\ rpc[o] = "sleep"
        /\ \E t \in rloc[r].task :
              /\ t.execution_time >= rloc[r].now
              /\ t.insert_date > rloc[r].now + SkewTolerance
              /\ t.insert_date = now + SkewTolerance

\* C24: a row leaves the table either by the commit of the claim that holds it,
\* which starts its thread, or by a remove() of its tag while no claim holds it
\* and no thread was started for it; a thread is started only by the claim that
\* deletes the row, a remove() changes no runner and no started thread, and a
\* row that has left the table does not come back.
C24_OneDeleter ==
    [][/\ \A t \in tasks :
            t \notin tasks' =>
                \/ \E r \in Runners :
                      /\ rpc[r] = "claim_delete"
                      /\ t \in rloc[r].task
                      /\ rpc'[r] = "sleep"
                      /\ executed'[t.id] = executed[t.id] + 1
                \/ /\ prod'.op = "remove"
                   /\ prod'.tag = t.tag
                   /\ rpc' = rpc
                   /\ executed' = executed
                   /\ executed[t.id] = 0
                   /\ \A r \in Runners : t \notin rloc[r].task
       /\ \A i \in DOMAIN executed :
            executed'[i] # executed[i] =>
                \E r \in Runners : \E t \in rloc[r].task :
                    /\ rpc[r] = "claim_delete"
                    /\ t.id = i
                    /\ t \in tasks
                    /\ t \notin tasks'
       /\ \A t \in tasks' : t \in tasks \/ (t.id = nextId /\ nextId' > nextId)]_vars

\* remove("t1") has returned while the claim of a runner holds the row of that
\* tag, which is still in the table
C24_Witness ==
    \E r \in Runners : \E t \in rloc[r].task :
        /\ rpc[r] = "claim_delete"
        /\ t.tag = "t1"
        /\ t \in tasks
        /\ prod.op = "remove"
        /\ prod.tag = "t1"

\* C25: no two rows have the same (basename, seq); a get() about to insert a
\* seq whose row exists by then writes nothing and enters its loop again, one
\* whose row does not exist inserts it and returns it; a get() that stands at a
\* seq another caller's row has taken goes on to a strictly greater seq or
\* returns -1, and returns a greater seq or -1; and every get() returns.
C25_LoserAdvances ==
    /\ [](\A r \in table : \A o \in table : KeyOf(r) = KeyOf(o) => r = o)
    /\ [][\A p \in Procs :
            LET taken == \E r \in table :
                            /\ r.basename = baseName[p]
                            /\ r.seq = loc[p].seq
                            /\ r.assigned
                            /\ r.owner # Owner(p)
            IN  /\ (pc[p] = "get_create" /\ pc'[p] # "get_create") =>
                      IF taken
                        THEN pc'[p] = "get_free" /\ table' = table /\ ret'[p] = NoRet
                        ELSE /\ ret'[p] = loc[p].seq
                             /\ \E r \in table' \ table :
                                   /\ KeyOf(r) = <<baseName[p], loc[p].seq>>
                                   /\ r.owner = Owner(p)
                                   /\ r.assigned
                /\ (pc[p] = "get_last" /\ pc'[p] = "get_create" /\ taken) =>
                      loc'[p].seq > loc[p].seq
                /\ (pc[p] # "idle" /\ pc'[p] = "idle" /\ taken) =>
                      ret'[p] = Exhausted \/ ret'[p] > loc[p].seq]_vars
    /\ \A p \in Procs : (pc[p] # "idle") ~> (pc[p] = "idle")

\* two racers both stand before the insert of the seq that the third racer's
\* insert has taken: both took the create branch for it before that insert
C25_Witness ==
    \E q \in Procs :
        /\ ret[q] # NoRet
        /\ \E r \in table : r.seq = ret[q] /\ r.owner = Owner(q) /\ r.assigned
        /\ \A p \in Procs \ {q} : pc[p] = "get_create" /\ loc[p].seq = ret[q]

\* C26: every get() returns after finitely many attempts, also when the store
\* fails every attempt.
C26_GetReturns ==
    \A p \in Procs : (pc[p] \in {"get_free", "get_last"}) ~> (ret[p] # NoRet)

\* C27: free(seq) changes the table only when the row (caller's basename, seq)
\* is owned by the caller: that row, and no other, becomes unassigned with empty
\* owner and compaction is entered; when the row is missing, free already or in
\* the hands of another identity, the call changes no row and does not compact.
C27_FreeFrame ==
    [][(call'.n # call.n /\ call'.op = "free") =>
          LET own == {r \in table : /\ r.basename = baseName[Caller]
                                     /\ r.seq = call'.seq
                                     /\ r.owner = Owner(Caller)}
          IN  IF own = {}
                THEN table' = table /\ pc'[Caller] = "idle"
                ELSE /\ table' = (table \ own) \cup
                                 {[r EXCEPT !.owner = NoOwner, !.assigned = FALSE,
                                            !.stamp = now] : r \in own}
                     /\ pc'[Caller] = "purge_read"]_vars

\* the caller's free(seq) hit no row, and the row (basename, seq) is in the hands
\* of the other generator of that basename
C27_Witness ==
    /\ call.op = "free"
    /\ call.flt = 0
    /\ pc[Caller] = "idle"
    /\ \E r \in table : /\ r.basename = baseName[Caller]
                        /\ r.seq = call.seq
                        /\ r.assigned
                        /\ r.owner = Owner("p2")

\* C28: transfer(seq, to) of a row the caller owns changes that row and no
\* other: it gets the owner and the basename of the target generator and keeps
\* its seq and its assigned flag (the stamp, which the update also writes, is
\* left open here), so that the row is never free in between; a transfer
\* of a seq the caller does not own changes no row.
C28_TransferMoves ==
    [][(call'.n # call.n /\ call'.op = "transfer") =>
          LET own == {r \in table : /\ r.basename = baseName[Caller]
                                    /\ r.seq = call'.seq
                                    /\ r.owner = Owner(Caller)}
          IN  IF own = {}
                THEN table' = table
                ELSE \E stamp \in 0..MaxNow :
                        table' = (table \ own) \cup
                                 {[r EXCEPT !.owner = Owner(call'.to),
                                            !.basename = baseName[call'.to],
                                            !.stamp = stamp] : r \in own}]_vars

\* C29: every step of release() - the update and the two steps of the
\* compaction that follows - leaves no row, in any basename, owned by the caller,
\* and leaves every row assigned to another owner in the table with its owner,
\* its seq and its assigned flag.
C29_ReleaseFrame ==
    [][(call'.op = "release" /\ (call'.n # call.n \/ pc'[Caller] # pc[Caller])) =>
          /\ \A r \in table' : r.owner # Owner(Caller)
          /\ \A r \in table :
                (r.assigned /\ r.owner # Owner(Caller)) =>
                    \E k \in table' : /\ k.basename = r.basename
                                      /\ k.seq = r.seq
                                      /\ k.owner = r.owner
                                      /\ k.assigned]_vars

\* C30: releaseOlderThan(stamp) frees the caller's rows whose stamp is strictly
\* before the given one, and every step of the call - the update and the two
\* steps of the compaction that follows - leaves the caller's rows with an equal
\* or later stamp and every row assigned to another owner in the table, assigned
\* to their owner.
C30_ReleaseOlderFrame ==
    [][(/\ call'.op = "releaseOlderThan"
        /\ (call'.n # call.n \/ pc'[Caller] # pc[Caller])) =>
          /\ \A r \in table' : r.owner = Owner(Caller) => r.stamp >= call'.stamp
          /\ \A r \in table :
                (r.assigned /\ (r.owner = Owner(Caller) => r.stamp >= call'.stamp)) =>
                    \E k \in table' : /\ k.basename = r.basename
                                      /\ k.seq = r.seq
                                      /\ k.owner = r.owner
                                      /\ k.assigned]_vars

\* C31: with no other call in progress, the compaction that ends free() and
\* release() leaves in the caller's basename exactly the rows at or below the
\* highest seq still assigned (the free rows below it stay), leaves the basename
\* empty when no row is assigned any more, and deletes no row of another basename.
C31_CompactionExact ==
    [][LET KeysIn(tbl, base) == {KeyOf(r) : r \in {t \in tbl : t.basename = base}}
           KeysOutside(tbl, base) == {KeyOf(r) : r \in {t \in tbl : t.basename # base}}
           \* the rows of the basename that are at or below one of the seqs
           UpTo(tbl, base, seqs) ==
               {KeyOf(r) : r \in {t \in tbl : /\ t.basename = base
                                              /\ \E q \in seqs : t.seq <= q}}
       IN
       /\ (call' # call /\ call'.op = "free" /\ call'.ok) =>
            LET used == {r.seq : r \in {t \in table : /\ t.basename = call'.base
                                                      /\ t.assigned
                                                      /\ t.seq # call'.seq}}
            IN  /\ KeysIn(table', call'.base) = UpTo(table, call'.base, used)
                /\ KeysOutside(table', call'.base) = KeysOutside(table, call'.base)
       /\ (call' # call /\ call'.op = "release") =>
            \E p \in Callers :
               LET used == {r.seq : r \in {t \in table : /\ t.basename = call'.base
                                                         /\ t.assigned
                                                         /\ t.owner # Owner(p)}}
               IN  /\ \A t \in table' : t.owner # Owner(p)
                   /\ KeysIn(table', call'.base) = UpTo(table, call'.base, used)
                   /\ KeysOutside(table', call'.base) = KeysOutside(table, call'.base)]_vars

\* a free() has deleted the row it freed and kept a free row below a row that
\* is still assigned
C31_Witness ==
    /\ call.op = "free"
    /\ call.ok
    /\ \A r \in table : KeyOf(r) # <<call.base, call.seq>>
    /\ \E h \in table : \E u \in table :
          /\ h.basename = call.base /\ u.basename = call.base
          /\ ~h.assigned /\ u.assigned /\ h.seq < u.seq

\* C32: in every reachable state, whatever the order of the get, free, transfer,
\* release and releaseOlderThan calls of the generators and of the steps of their
\* compactions, no two rows have the same (basename, seq); a transfer into a
\* basename that has a row with that seq adds no second one.
C32_UniqueKey ==
    \A r \in table : \A k \in table : KeyOf(r) = KeyOf(k) => r = k

\* the caller's transfer() met a row with its seq in the basename of the target:
\* both rows are in the table, each under its own basename
C32_Witness ==
    /\ call.op = "transfer"
    /\ \E r \in table : /\ r.basename = baseName[Caller]
                        /\ r.seq = call.seq
                        /\ r.owner = Owner(Caller)
    /\ \E k \in table : /\ k.basename = baseName[call.to]
                        /\ k.basename # baseName[Caller]
                        /\ k.seq = call.seq

\* C33: when remove(tag) returns, no row with that tag that was in the table at
\* the call is left in it, and the rows with another tag are as they were.
C33_RemoveFrame ==
    [][(prod' # prod /\ prod'.op = "remove") =>
          /\ \A t \in tasks : t.tag = prod'.tag => t \notin tasks'
          /\ {t \in tasks' : t.tag # prod'.tag} = {t \in tasks : t.tag # prod'.tag}]_vars

\* C34: when no allocator call is in progress, no basename has an unassigned row
\* above its highest assigned seq: every unassigned row lies below some assigned
\* row of its basename.
C34_NoFreeTail ==
    \A r \in table :
        ~r.assigned => \E u \in table : /\ u.basename = r.basename
                                        /\ u.assigned
                                        /\ u.seq > r.seq

\* C35: as long as no stop signal is given, every row that is due and can be
\* claimed leaves the table in the end, whatever other rows are in the table: a
\* row whose payload cannot be decoded does not keep it from being claimed.
C35_DueEventuallyClaimed ==
    \A id \in 1..RunTasks :
        (\E t \in tasks : t.id = id /\ t.execution_time < now /\ Decodable(t.instance))
           ~> (~Queued(id) \/ StopGiven)

\* C36: in every reachable state a row is unassigned exactly when its owner is
\* the empty string: get and transfer write assigned rows with an owner, and
\* free, release and releaseOlderThan clear the owner and the flag together.
C36_OwnerIffAssigned ==
    \A r \in table : r.assigned <=> r.owner # NoOwner

\* after a releaseOlderThan() of the caller a row it has freed is in the table
\* next to a row that another generator holds
C36_Witness ==
    /\ call.op = "releaseOlderThan"
    /\ \E r \in table : ~r.assigned /\ r.owner = NoOwner /\ r.stamp = call.stamp
    /\ \E r \in table : r.assigned /\ r.owner = Owner("p3")

\* C37: a get(rangeStart, rangeEnd) returns -1 or a seq within [rangeStart,
\* rangeEnd], whatever the two values are (also rangeStart > rangeEnd) and
\* whatever rows the basename has outside the range; the only step of a get()
\* that changes the table is the one that returns a seq, and it writes the row
\* of that seq alone, so a get() that returns -1 has changed no row.
C37_ReturnInRange ==
    [][\A p \in Callers :
          (pc[p] \in {"get_free", "get_save", "get_last", "get_create"} /\
           <<pc[p], locked[p], loc[p], ret[p]>>' #
                                <<pc[p], locked[p], loc[p], ret[p]>>) =>
             /\ pc'[p] = "idle" =>
                   \/ ret'[p] = Exhausted
                   \/ ret'[p] >= loc[p].rs /\ ret'[p] <= loc[p].re
             /\ table' # table =>
                   /\ pc'[p] = "idle"
                   /\ ret'[p] # Exhausted
                   /\ {r \in table' : r.seq # ret'[p] \/ r.basename # baseName[p]} =
                      {r \in table : r.seq # ret'[p] \/ r.basename # baseName[p]}]_vars

\* a get() with rangeStart > rangeEnd stands before the read of the last
\* assigned row while the basename has an assigned and a free row, and the other
\* caller's get() has returned -1
C37_Witness ==
    /\ pc["p1"] = "get_last"
    /\ loc["p1"].rs > loc["p1"].re
    /\ \E r \in table : r.basename = baseName["p1"] /\ r.assigned
    /\ \E r \in table : r.basename = baseName["p1"] /\ ~r.assigned
    /\ pc["p2"] = "idle"
    /\ ret["p2"] = Exhausted

C39_StopsAfterOneClaim ==
    /\ [][\A i \in 1..made : ~keep[i] => ~keep'[i]]_vars
    /\ [][LET \* how far the thread r is in the pass of its loop: in time.sleep,
              \* in the claim, back at the head of the loop, out of the loop
              LoopRank(r) ==
                  CASE rpc[r] = "exited"       -> 4
                    [] boot[r] = "sleeping"    -> 0
                    [] rpc[r] = "poll"         -> 1
                    [] rpc[r] = "claim_delete" -> 2
                    [] OTHER                   -> 3
          IN  (single # 0 /\ ~keep[single]) =>
                 \A r \in Runners :
                    boot[r] \in {"got", "sleeping"} => LoopRank(r)' >= LoopRank(r)]_vars
    /\ \A r \in Runners :
          (single # 0 /\ ~keep[single] /\ boot[r] \in {"got", "sleeping"})
             ~> (rpc[r] = "exited")

\* C40: the names given out by get() and not freed are pairwise distinct
\* strings, whatever their base names and lengths: a name is held once, under
\* one base name and by one generator.
C40_NamesDistinct ==
    \A p \in Procs : \A q \in Procs : \A e \in named[p] : \A f \in named[q] :
        e.name = f.name => (e = f /\ p = q)

====
